---- MODULE Spec2Model ----
(***************************************************************************)
(* Model of drbitboy/gaiaif: the streaming top-K magnitude merge of        *)
(* fov_cmd.gaiaif() over one GAIASQL cursor per RA,Dec box, and the FOV    *)
(* geometry of gaiaif_util.FOV (RA,Dec boxes and star_in_fov).             *)
(*                                                                         *)
(* The merge is modelled from the point where the FOV has been built: the  *)
(* list comprehension that opens one GAIASQL per box (fov_cmd.py 162-167), *)
(* the while loop (179-216) and the return (218).  The outcome of          *)
(* FOV.star_in_fov for a row is a fixed attribute in_fov of the row: the   *)
(* test is a pure function of the row and of the FOV.                      *)
(*                                                                         *)
(* Two specifications share the module: Spec (FairSpec) runs the merge     *)
(* with the FOV variables idle, SpecFOV builds an FOV and applies          *)
(* star_in_fov with the merge variables idle.                              *)
(***************************************************************************)
EXTENDS Integers, Sequences, FiniteSets, TLC

\* ------------------------------------------------------------------ bounds
\* Longest row stream a query yields
MaxLen == 2
\* Magnitudes are drawn from 1..MaxMag
MaxMag == 2
\* rtn_limit is drawn from 0..MaxLimit
MaxLimit == 2
\* Ghost counters (scans of a row) saturate here
ScanCap == 2

\* FOV.radec_boxes holds one or two boxes, hence at most two cursors
MaxBoxes == 2

VARIABLES
  streams,    \* environment: per box, the rows its query yields, in ORDER BY order
  rtn_limit,  \* gaiaif argument rtn_limit
  gaiasqls,   \* list of GAIASQL objects: [row, done, count, closes]
  rtn_stars,  \* list of stars found in the FOV, as read: the records it refers to
  objs,       \* the dict objects made by line 181, one per pass, by object number
  rtn_ids,    \* for each element of rtn_stars, the number of the object it is
  scans,      \* ghost: per row, how often it was passed to FOV.star_in_fov
  pc,         \* "open" | "loop" | "done" (returned) | "raised" (exception left gaiaif)
  fovraws,    \* FOV.__init__ argument fovraws
  fov,        \* the FOV object: its attributes once __init__ has run
  fpc,        \* "new" | "built" | "failed" (__init__ raised) | "idle"
  vstar,      \* last argument vstar of FOV.star_in_fov, as <<ra, dec>>
  rtn,        \* what that call returned: <<inside, uvstar>>
  obs,        \* FOV.__init__ arguments <<obs_pos, obs_vel, obs_year>>
  vcorr,      \* last arguments <<parallax_maspau, pmra_maspy, pmdec_maspy>>
  applied,    \* ghost: the corrections that call applied, in their order
  crossrtn,   \* what lines 493-509 return for the FOV and the vector of rtn
  localxyzs,  \* FOV.localxyzs: the vertices in the local plane Z = 1, <<x, y>>
  fovsides,   \* FOV.fovsides: one FOVSIDE for each vertex, None until set up
  z1star,     \* last direction tested against the sides, in the local plane
  hits        \* what FOVSIDE.right_of returned for it, side by side

mvars == <<streams, rtn_limit, gaiasqls, rtn_stars, objs, rtn_ids, scans, pc>>
fvars == <<fovraws, fov, fpc, vstar, rtn, obs, vcorr, applied, crossrtn>>
svars == <<localxyzs, fovsides, z1star, hits>>
vars == <<streams, rtn_limit, gaiasqls, rtn_stars, objs, rtn_ids, scans, pc, fovraws, fov,
          fpc, vstar, rtn, obs, vcorr, applied, crossrtn, localxyzs, fovsides,
          z1star, hits>>

\* Python None for GAIASQL.row; a row is held as the one-element tuple <<r>>
None == <<>>
\* No FOV object: the constructor has not returned one
NoFOV == [ok |-> FALSE]

\* ------------------------------------------------------------ environment
\* Magnitude sequences in ascending order: the query ends in ORDER BY mean_mag
SortedMags ==
  { s \in UNION { [1..n -> 1..MaxMag] : n \in 0..MaxLen } :
      \A j \in 1..(Len(s) - 1) : s[j] <= s[j + 1] }

\* All rows of all streams, as <<box, position>>
RowIds == { <<i, p>> \in (1..Len(streams)) \X (1..MaxLen) : p <= Len(streams[i]) }

\* ---------------------------------------------------------------- GAIASQL
\* A variant of close that leaves the last row in place
closeKeepRow(g) == [g EXCEPT !.done = TRUE, !.closes = @ + 1]
\* GAIASQL.close: row = None, done = True, cursor and connection closed
close(g) == [g EXCEPT !.row = None, !.done = TRUE, !.closes = @ + 1]

\* GAIASQL.cursor_next when the cursor does not raise an error: the next row, or
\* StopIteration and close()
cursor_next(g, stream) ==
  IF g.count < Len(stream)
  THEN [g EXCEPT !.row = <<stream[g.count + 1]>>, !.count = @ + 1]
  ELSE close(g)

\* GAIASQL.get_row: the current row or None (the object itself is the index)
get_row(g) == g.row

\* ------------------------------------------------------------------ gaiaif
\* The for loop over [gaiasql.get_row() ...]: index of minmag_gsql, 0 for None
RECURSIVE SelectFromMut(_, _, _)
SelectFromMut(gs, i, best) ==
  IF i > Len(gs) THEN best
  ELSE IF get_row(gs[i]) = None THEN SelectFromMut(gs, i + 1, best)
  ELSE IF best # 0 /\ get_row(gs[i])[1].mean_mag <= get_row(gs[best])[1].mean_mag
       THEN SelectFromMut(gs, i + 1, best)
  ELSE SelectFromMut(gs, i + 1, i)

RECURSIVE SelectFrom(_, _, _)
SelectFrom(gs, i, best) ==
  IF i > Len(gs) THEN best
  ELSE IF get_row(gs[i]) = None THEN SelectFrom(gs, i + 1, best)
  ELSE IF best # 0 /\ get_row(gs[i])[1].mean_mag >= get_row(gs[best])[1].mean_mag
       THEN SelectFrom(gs, i + 1, best)
  ELSE SelectFrom(gs, i + 1, i)

minmag_gsql == SelectFrom(gaiasqls, 1, 0)

\* The while condition of the merge loop
LoopTestMut == Len(rtn_stars) <= rtn_limit
LoopTest == Len(rtn_stars) < rtn_limit

\* fov.star_in_fov(...) for the selected row, as the loop sees it
RowInFovMut(r) == TRUE
RowInFov(r) == r.in_fov

Bump(n) == IF n < ScanCap THEN n + 1 ELSE ScanCap

\* No polygon in the local plane: setup_localxyzs was not called
NoSides == localxyzs = <<>> /\ fovsides = <<>> /\ z1star = <<>> /\ hits = <<>>

Init ==
  /\ \E nb \in 1..MaxBoxes :
       \E ms \in [1..nb -> SortedMags], fs \in [1..nb -> [1..MaxLen -> BOOLEAN]] :
         streams = [i \in 1..nb |->
                      [p \in 1..Len(ms[i]) |->
                         [mean_mag |-> ms[i][p], in_fov |-> fs[i][p], idoffset |-> <<i, p>>]]]
  /\ rtn_limit \in 0..MaxLimit
  /\ gaiasqls = <<>>
  /\ rtn_stars = <<>>
  /\ objs = <<>>
  /\ rtn_ids = <<>>
  /\ scans = [id \in (1..MaxBoxes) \X (1..MaxLen) |-> 0]
  /\ pc = "open"
  /\ fovraws = <<>> /\ fov = NoFOV /\ fpc = "idle" /\ vstar = <<>> /\ rtn = <<>>
  /\ obs = <<None, None, None>> /\ vcorr = <<None, None, None>>
  /\ applied = <<>> /\ crossrtn = None
  /\ NoSides

\* After the last GAIASQL is built the loop starts
AfterOpen(gs) == IF Len(gs) = Len(streams) THEN "loop" ELSE "open"

\* GAIASQL.__init__ for the next box: connect, execute, first cursor_next
Open ==
  /\ pc = "open"
  /\ Len(gaiasqls) < Len(streams)
  /\ LET i == Len(gaiasqls) + 1
         g0 == [row |-> None, done |-> FALSE, count |-> 0, closes |-> 0]
         gs == Append(gaiasqls, cursor_next(g0, streams[i]))
     IN /\ gaiasqls' = gs
        /\ pc' = AfterOpen(gs)
  /\ UNCHANGED <<streams, rtn_limit, rtn_stars, objs, rtn_ids, scans>>
  /\ UNCHANGED fvars
  /\ UNCHANGED svars

\* GAIASQL.__init__ raises (connect, execute or the first fetch fails): the
\* exception leaves gaiaif; the cursors built so far are left as they are
OpenRaise ==
  /\ pc = "open"
  /\ Len(gaiasqls) < Len(streams)
  /\ pc' = "raised"
  /\ UNCHANGED <<streams, rtn_limit, gaiasqls, rtn_stars, objs, rtn_ids, scans>>
  /\ UNCHANGED fvars
  /\ UNCHANGED svars

\* One pass of the while loop that ends it: the limit is reached, or no cursor
\* has a row (break)
LoopExit ==
  /\ pc = "loop"
  /\ \/ ~LoopTest
     \/ LoopTest /\ minmag_gsql = 0
  /\ pc' = "done"
  /\ UNCHANGED <<streams, rtn_limit, gaiasqls, rtn_stars, objs, rtn_ids, scans>>
  /\ UNCHANGED fvars
  /\ UNCHANGED svars

\* minmag_gsql.cursor_next(), the last statement of the loop body
AdvanceMut(gs, k) == gs
\* A variant of Advance that fetches from every cursor that is not done
AdvanceAll(gs, k) ==
  [i \in 1..Len(gs) |-> IF gs[i].done THEN gs[i] ELSE cursor_next(gs[i], streams[i])]
Advance(gs, k) == [gs EXCEPT ![k] = cursor_next(@, streams[k])]

\* A variant of new_dict that hands out one object, made before the loop
new_dictMut(os) == 1
\* minmag_row = dict(...) (line 181): a new object in every pass
new_dict(os) == Len(os) + 1

\* The objects after minmag_row.update(row) on object number id
update(os, id, r) == IF id > Len(os) THEN Append(os, r) ELSE [os EXCEPT ![id] = r]

\* The body up to and including rtn_stars.append for the selected row
Classified(k) ==
  LET r == get_row(gaiasqls[k])[1]
      id == new_dict(objs)
      ids == IF RowInFov(r) THEN Append(rtn_ids, id) ELSE rtn_ids
  IN /\ scans' = [scans EXCEPT ![r.idoffset] = Bump(@)]
     /\ objs' = update(objs, id, r)
     /\ rtn_ids' = ids
     /\ rtn_stars' = [j \in 1..Len(ids) |-> update(objs, id, r)[ids[j]]]

\* One full pass of the while loop: select, classify, append, cursor_next
LoopBody ==
  /\ pc = "loop"
  /\ LoopTest
  /\ minmag_gsql # 0
  /\ LET k == minmag_gsql
     IN /\ Classified(k)
        /\ IF gaiasqls[k].done
           THEN pc' = "raised" /\ UNCHANGED gaiasqls
           ELSE /\ gaiasqls' = Advance(gaiasqls, k)
                /\ pc' = "loop"
  /\ UNCHANGED <<streams, rtn_limit>>
  /\ UNCHANGED fvars
  /\ UNCHANGED svars

\* One pass of the while loop in which cursor_next raises an error other than
\* StopIteration ("except: raise"): the exception leaves gaiaif
LoopBodyRaise ==
  /\ pc = "loop"
  /\ LoopTest
  /\ minmag_gsql # 0
  /\ Classified(minmag_gsql)
  /\ pc' = "raised"
  /\ UNCHANGED <<streams, rtn_limit, gaiasqls>>
  /\ UNCHANGED fvars
  /\ UNCHANGED svars

Next == Open \/ OpenRaise \/ LoopExit \/ LoopBody \/ LoopBodyRaise

Spec == Init /\ [][Next]_vars

\* The interpreter runs gaiaif to its end: no step is postponed forever
FairSpec == Spec /\ WF_vars(Next)

\* ------------------------------------------------------- exact arithmetic
\* Angles are whole degrees.  A unit vector is held as the shortest integer
\* vector of its direction; the code's uses of unit vectors are sign tests,
\* which a positive scale leaves alone, and comparisons of cosines and sines,
\* which are made on the exact forms X/sqrt(N) below.
Abs(x) == IF x < 0 THEN -x ELSE x
Sgn(x) == IF x > 0 THEN 1 ELSE IF x < 0 THEN -1 ELSE 0
Min2(a, b) == IF a <= b THEN a ELSE b
Max2(a, b) == IF a >= b THEN a ELSE b

RECURSIVE GCD(_, _)
GCD(a, b) == IF b = 0 THEN a ELSE GCD(b, a % b)

vdot(a, b) == a[1] * b[1] + a[2] * b[2] + a[3] * b[3]
vcrss(a, b) ==
  << a[2] * b[3] - a[3] * b[2], a[3] * b[1] - a[1] * b[3], a[1] * b[2] - a[2] * b[1] >>
vadd(a, b) == << a[1] + b[1], a[2] + b[2], a[3] + b[3] >>
vminus(a) == << -a[1], -a[2], -a[3] >>
vnorm2(a) == vdot(a, a)
vhat(v) ==
  LET g == GCD(GCD(Abs(v[1]), Abs(v[2])), Abs(v[3]))
  IN IF g = 0 THEN v ELSE << v[1] \div g, v[2] \div g, v[3] \div g >>
ucrss(a, b) == vhat(vcrss(a, b))

\* The real number X/sqrt(N), N > 0, as <<X, N>>, and its order
RootLT(a, b) == Sgn(a[1]) * a[1] * a[1] * b[2] < Sgn(b[1]) * b[1] * b[1] * a[2]
RootLE(a, b) == ~RootLT(b, a)
\* Cosine of the angle between two vectors
CosOf(a, b) == << vdot(a, b), vnorm2(a) * vnorm2(b) >>
\* sin of the declination of a vector: dpr * asin(z) of the unit vector
SinDecOf(v) == << v[3], vnorm2(v) >>
\* sin and cos of the angles the model uses, in the same form
SinDeg(d) ==
  CASE d = 0 -> <<0, 1>> [] d = 30 -> <<1, 4>> [] d = 45 -> <<1, 2>>
    [] d = 60 -> <<3, 12>> [] d = 90 -> <<1, 1>> [] d = -30 -> <<-1, 4>>
    [] d = -45 -> <<-1, 2>> [] d = -60 -> <<-3, 12>> [] d = -90 -> <<-1, 1>>
CosDeg(d) == SinDeg(90 - d)

\* sp.radrec(1, ra*rpd, dec*rpd) on the directions that integer vectors hold
\* exactly: RA a multiple of 45 on the equator, RA a multiple of 90 at
\* Dec +-45, and the poles
CosSin(ra) ==
  CASE ra = 0 -> <<1, 0>> [] ra = 45 -> <<1, 1>> [] ra = 90 -> <<0, 1>>
    [] ra = 135 -> <<-1, 1>> [] ra = 180 -> <<-1, 0>> [] ra = 225 -> <<-1, -1>>
    [] ra = 270 -> <<0, -1>> [] ra = 315 -> <<1, -1>> [] ra = 360 -> <<1, 0>>
radrec(ra, dec) ==
  IF Abs(dec) = 90 THEN << 0, 0, Sgn(dec) >>
  ELSE << CosSin(ra)[1], CosSin(ra)[2], Sgn(dec) >>

\* ------------------------------------------------------------- FOV inputs
RAs == { 45 * k : k \in 0..8 }
Decs == { 45 * k : k \in -2..2 }
\* RA,Dec pairs whose unit vector radrec holds exactly
Grid ==
  { v \in RAs \X Decs :
      \/ v[2] = 0
      \/ Abs(v[2]) = 45 /\ v[1] % 90 = 0
      \/ Abs(v[2]) = 90 /\ v[1] % 90 = 0 /\ v[1] < 360 }
\* Vertices outside the RA and Dec ranges
OffRange == { <<405, 0>>, <<0, 135>> }
\* Cone half-angles: a scalar second item is held as <<hang>>
Hangs == { <<-30>>, <<0>>, <<30>>, <<45>>, <<60>>, <<90>>, <<120>> }

CIRCLETYPE == "circle"
RADECBOXTYPE == "radecbox"
POLYGONTYPE == "polygon"

\* ------------------------------------------------------- parse_inertial
\* parse_inertial on an RA,Dec pair: the range assertions, then radrec
parse_inertial(input_vertex) ==
  LET ra == input_vertex[1]
      dec == input_vertex[2]
      ok == ra <= 360 /\ ra >= 0 /\ dec <= 90 /\ dec >= -90
  IN [ok |-> ok, ra |-> ra, dec |-> dec,
      uvxyz |-> IF ok THEN radrec(ra, dec) ELSE <<0, 0, 0>>]

\* ---------------------------------------------------- FOV.__init__: boxes
\* A variant of BoxBoxes that splits only above a span of 180
BoxBoxesMut(radecdegs) ==
  LET ralo == Min2(radecdegs[1][1], radecdegs[2][1])
      rahi == Max2(radecdegs[1][1], radecdegs[2][1])
      declo == Min2(radecdegs[1][2], radecdegs[2][2])
      dechi == Max2(radecdegs[1][2], radecdegs[2][2])
  IN IF 180 >= (rahi - ralo)
     THEN << <<ralo, rahi, declo, dechi>> >>
     ELSE << <<0, ralo, declo, dechi>>, <<rahi, 360, declo, dechi>> >>
\* RA,Dec box FOV (lines 132-141)
BoxBoxes(radecdegs) ==
  LET ralo == Min2(radecdegs[1][1], radecdegs[2][1])
      rahi == Max2(radecdegs[1][1], radecdegs[2][1])
      declo == Min2(radecdegs[1][2], radecdegs[2][2])
      dechi == Max2(radecdegs[1][2], radecdegs[2][2])
  IN IF 180 > (rahi - ralo)
     THEN << <<ralo, rahi, declo, dechi>> >>
     ELSE << <<0, ralo, declo, dechi>>, <<rahi, 360, declo, dechi>> >>

\* The RA half-width of a cone that excludes the poles (lines 161-165):
\* deltara = atan(T / (cosdec * coshang)), that is sin(deltara) = sin(hang) /
\* cos(dec); on the grid dec = 0 gives hang, and |dec| = 45, hang = 30 gives 45
deltara(dec, hangdeg) ==
  CASE dec = 0 -> hangdeg
    [] Abs(dec) = 45 /\ hangdeg = 30 -> 45

\* tan(d)^2 as <<numerator, denominator>>
Tan2(d) ==
  CASE d = 0 -> <<0, 1>> [] Abs(d) = 30 -> <<1, 3>>
    [] Abs(d) = 45 -> <<1, 1>> [] Abs(d) = 60 -> <<3, 1>>
\* 0 < 1.0 - ((tanhang*tandec)**2): math.sqrt has a real, non-zero value
\* (line 164)
sqrt_arg_positive(dec, hangdeg) ==
  Tan2(hangdeg)[1] * Tan2(dec)[1] < Tan2(hangdeg)[2] * Tan2(dec)[2]
\* The branch of lines 158-166 is taken
formula_branch(dec, hangdeg) ==
  /\ ~(dec - hangdeg < -90 \/ dec + hangdeg > 90)
  /\ ~(dec - hangdeg = -90 \/ dec + hangdeg = 90)
\* math.sqrt or the division of line 164 raises
ConeRaises(dec, hangdeg) ==
  formula_branch(dec, hangdeg) /\ ~sqrt_arg_positive(dec, hangdeg)

\* A variant of ConeBoxes that takes a pole on the circumference as enclosed
ConeBoxesMut(ra, dec, hangdeg) ==
  LET fovdeclo0 == dec - hangdeg
      fovdechi0 == dec + hangdeg
      polein == fovdeclo0 <= -90 \/ fovdechi0 >= 90
      fovdeclo == IF polein THEN Max2(fovdeclo0, -90) ELSE fovdeclo0
      fovdechi == IF polein THEN Min2(fovdechi0, 90) ELSE fovdechi0
      fovralo0 == IF polein THEN 0 ELSE ra - deltara(dec, hangdeg)
      fovrahi0 == IF polein THEN 360 ELSE ra + deltara(dec, hangdeg)
      fovralo == IF fovralo0 < 0 THEN fovralo0 + 360 ELSE fovralo0
      fovrahi == IF fovrahi0 > 360 THEN fovrahi0 - 360 ELSE fovrahi0
  IN IF fovralo <= fovrahi
     THEN << <<fovralo, fovrahi, fovdeclo, fovdechi>> >>
     ELSE << <<0, fovrahi, fovdeclo, fovdechi>>, <<fovralo, 360, fovdeclo, fovdechi>> >>
\* A variant of ConeBoxes that does not split at the Prime Meridian
ConeBoxesNoSplit(ra, dec, hangdeg) ==
  LET fovdeclo0 == dec - hangdeg
      fovdechi0 == dec + hangdeg
      polein == fovdeclo0 < -90 \/ fovdechi0 > 90
      poleon == ~polein /\ (fovdeclo0 = -90 \/ fovdechi0 = 90)
      fovdeclo == IF polein THEN Max2(fovdeclo0, -90) ELSE fovdeclo0
      fovdechi == IF polein THEN Min2(fovdechi0, 90) ELSE fovdechi0
      halfra == IF poleon THEN 90 ELSE deltara(dec, hangdeg)
      fovralo0 == IF polein THEN 0 ELSE ra - halfra
      fovrahi0 == IF polein THEN 360 ELSE ra + halfra
      fovralo == IF fovralo0 < 0 THEN fovralo0 + 360 ELSE fovralo0
      fovrahi == IF fovrahi0 > 360 THEN fovrahi0 - 360 ELSE fovrahi0
  IN IF fovralo <= fovrahi
     THEN << <<fovralo, fovrahi, fovdeclo, fovdechi>> >>
     ELSE << <<0, fovrahi, fovdeclo, fovdechi>> >>

\* Circular FOV (lines 143-178)
ConeBoxes(ra, dec, hangdeg) ==
  LET fovdeclo0 == dec - hangdeg
      fovdechi0 == dec + hangdeg
      polein == fovdeclo0 < -90 \/ fovdechi0 > 90
      poleon == ~polein /\ (fovdeclo0 = -90 \/ fovdechi0 = 90)
      fovdeclo == IF polein THEN Max2(fovdeclo0, -90) ELSE fovdeclo0
      fovdechi == IF polein THEN Min2(fovdechi0, 90) ELSE fovdechi0
      halfra == IF poleon THEN 90 ELSE deltara(dec, hangdeg)
      fovralo0 == IF polein THEN 0 ELSE ra - halfra
      fovrahi0 == IF polein THEN 360 ELSE ra + halfra
      fovralo == IF fovralo0 < 0 THEN fovralo0 + 360 ELSE fovralo0
      fovrahi == IF fovrahi0 > 360 THEN fovrahi0 - 360 ELSE fovrahi0
  IN IF fovralo <= fovrahi
     THEN << <<fovralo, fovrahi, fovdeclo, fovdechi>> >>
     ELSE << <<0, fovrahi, fovdeclo, fovdechi>>, <<fovralo, 360, fovdeclo, fovdechi>> >>

\* -------------------------------------------------- FOV.__init__: polygon
\* One element of pairs: RA in degrees, Dec as sin(Dec) in the form X/sqrt(N)
\* (the order of declinations in [-90,90] is the order of their sines), XYZ
Pair(ra, sdec, xyz) == [ra |-> ra, dec |-> sdec, xyz |-> xyz]
\* pairs.append(pairs.pop(0))
Rotate(pairs) == Append(Tail(pairs), Head(pairs))

\* Rotate pairs until the last one is off the Prime Meridian (lines 231-235);
\* <<>> when the assertion on pop_count fails
RECURSIVE OffPM(_, _)
OffPM(pairs, pop_count) ==
  IF pairs[Len(pairs)].ra # 0 THEN pairs
  ELSE IF pop_count + 1 < Len(pairs) THEN OffPM(Rotate(pairs), pop_count + 1)
  ELSE <<>>

\* <<crossing_count, zero_count>> of pairs i.. (lines 238-246)
RECURSIVE CountCrossings(_, _, _)
CountCrossings(pairs, i, lastra) ==
  IF i > Len(pairs) THEN <<0, 0>>
  ELSE LET ra0 == pairs[i].ra
           ra == IF ra0 = 0 /\ lastra > 180 THEN 360 ELSE ra0
           rest == CountCrossings(pairs, i + 1, ra)
       IN << rest[1] + (IF 180 < Abs(ra - lastra) THEN 1 ELSE 0),
             rest[2] + (IF ra0 = 0 THEN 1 ELSE 0) >>

\* Rotations ahead of the split (lines 270-281)
RECURSIVE ZeroFirst(_)
ZeroFirst(pairs) ==
  IF pairs[1].ra # 0 THEN ZeroFirst(Rotate(pairs)) ELSE pairs
RECURSIVE CrossingFirst(_)
CrossingFirst(pairs) ==
  IF Abs(pairs[1].ra - pairs[Len(pairs)].ra) < 180
  THEN CrossingFirst(Rotate(pairs)) ELSE pairs

\* vhat(vlcom(1-k1, xyz, k1, lastxyz)) with k1 = -y / (lasty - y) (lines
\* 308-309): (lasty * xyz - y * lastxyz) / (lasty - y), for two vectors of
\* the same length
midxyz(xyz, lastxyz) ==
  LET d == Sgn(lastxyz[2] - xyz[2])
      a == lastxyz[2]
      b == xyz[2]
  IN vhat(<< d * (a * xyz[1] - b * lastxyz[1]),
             d * (a * xyz[2] - b * lastxyz[2]),
             d * (a * xyz[3] - b * lastxyz[3]) >>)

\* The loop over pairs that writes the two sub-FOVs (lines 286-335)
RECURSIVE Split(_, _, _, _, _, _, _)
Split(pairs, i, lastra, lastxyz, iswest, eastfov, westfov) ==
  IF i > Len(pairs) THEN [eastfov |-> eastfov, westfov |-> westfov]
  ELSE
    LET pair == pairs[i]
        ra == pair.ra
        xyz == pair.xyz
    IN IF ra = 0
       THEN IF lastra >= 180
            THEN Split(pairs, i + 1, 360, xyz, TRUE, eastfov,
                       Append(westfov, Pair(360, pair.dec, xyz)))
            ELSE Split(pairs, i + 1, ra, xyz, FALSE, Append(eastfov, pair), westfov)
       ELSE IF Abs(lastra - ra) >= 180
       THEN LET mid == midxyz(xyz, lastxyz)
                middec == SinDecOf(mid)
                west1 == Append(westfov, Pair(360, middec, mid))
                w == ra >= 180
                east1 == IF ra > 0 /\ ~w
                         THEN Append(eastfov, Pair(0, middec, mid)) ELSE eastfov
            IN IF w THEN Split(pairs, i + 1, ra, xyz, w, east1, Append(west1, pair))
               ELSE Split(pairs, i + 1, ra, xyz, w, Append(east1, pair), west1)
       ELSE IF iswest
            THEN Split(pairs, i + 1, ra, xyz, iswest, eastfov, Append(westfov, pair))
            ELSE Split(pairs, i + 1, ra, xyz, iswest, Append(eastfov, pair), westfov)

\* Dec extrema <<mindec, maxdec>> of the side from lastxyz to the vertex
\* (lines 360-392)
SideDecs(lastxyz, pair) ==
  LET xyz == pair.xyz
      sidenormal == vcrss(lastxyz, xyz)
      lastdz == vcrss(sidenormal, lastxyz)[3]
      dz == vcrss(sidenormal, xyz)[3]
      equinox == vcrss(<<0, 0, 1>>, sidenormal)
      vtoextremez == ucrss(sidenormal, equinox)
      mindot == CosOf(lastxyz, xyz)
      Between(v) == /\ RootLT(mindot, CosOf(lastxyz, v))
                    /\ RootLT(mindot, CosOf(xyz, v))
      Widen(v) == LET extremedec == SinDecOf(v)
                  IN IF RootLT(pair.dec, extremedec) THEN <<pair.dec, extremedec>>
                     ELSE IF RootLT(extremedec, pair.dec) THEN <<extremedec, pair.dec>>
                     ELSE <<pair.dec, pair.dec>>
  IN IF 0 > lastdz * dz
     THEN IF Between(vtoextremez) THEN Widen(vtoextremez)
          ELSE IF Between(vminus(vtoextremez)) THEN Widen(vminus(vtoextremez))
          ELSE <<pair.dec, pair.dec>>
     ELSE <<pair.dec, pair.dec>>

\* A variant of RaLimits that tests both limits at every vertex
RaLimitsMut(ra, ralo, rahi) ==
  << IF ra < ralo THEN ra ELSE ralo, IF ra > rahi THEN ra ELSE rahi >>
\* The RA limits after one vertex (lines 356-357)
RaLimits(ra, ralo, rahi) ==
  IF ra > rahi THEN <<ralo, ra>>
  ELSE IF ra < ralo THEN <<ra, rahi>>
  ELSE <<ralo, rahi>>

\* The loop over one sub-FOV that grows its box (lines 350-397)
RECURSIVE SubBox(_, _, _, _)
SubBox(subfov, i, lastxyz, box) ==
  IF i > Len(subfov) THEN box
  ELSE
    LET pair == subfov[i]
        ras == RaLimits(pair.ra, box[1], box[2])
        decs == SideDecs(lastxyz, pair)
        declo == IF RootLT(decs[1], box[3]) THEN decs[1] ELSE box[3]
        dechi == IF RootLT(box[4], decs[2]) THEN decs[2] ELSE box[4]
    IN SubBox(subfov, i + 1, pair.xyz, <<ras[1], ras[2], declo, dechi>>)

\* A variant of PoleRange that takes the north pole always
PoleRangeMut(uvavg) == <<0, 360, SinDeg(90), SinDeg(90)>>
\* Inverted ranges, and the full RA range with both Dec limits at one pole
InvertedRange == <<360, 0, SinDeg(90), SinDeg(-90)>>
PoleRange(uvavg) ==
  IF uvavg[3] > 0 THEN <<0, 360, SinDeg(90), SinDeg(90)>>
  ELSE <<0, 360, SinDeg(-90), SinDeg(-90)>>

\* fovsum after the loop over the vertices (line 124)
RECURSIVE fovsum(_)
fovsum(uvs) ==
  IF uvs = <<>> THEN <<0, 0, 0>> ELSE vadd(fovsum(Tail(uvs)), Head(uvs))

\* Polygonal FOV (lines 186-400), for vertices whose integer vectors have one
\* length, so that their sum has the direction of uvavg.  The rotation to the
\* local frame (lines 193-225) serves the crossing-number test only and is
\* left out.
PolygonBoxes(radecdegs, uvfovxyzs) ==
  LET L == Len(radecdegs)
      uvavg == vhat(fovsum(uvfovxyzs))
      hemisphere == \A i \in 1..L : 0 < vdot(uvavg, uvfovxyzs[i])
      pairs0 == [i \in 1..L |->
                  Pair(radecdegs[i][1], SinDeg(radecdegs[i][2]), uvfovxyzs[i])]
      pairs == OffPM(pairs0, 0)
      counts == CountCrossings(pairs, 1, pairs[Len(pairs)].ra)
      crossing_count == counts[1]
      zero_count == counts[2]
      rotated == IF zero_count > 0 THEN ZeroFirst(pairs) ELSE CrossingFirst(pairs)
      halves == Split(rotated, 1, rotated[Len(rotated)].ra,
                      rotated[Len(rotated)].xyz, FALSE, <<>>, <<>>)
      Box(subfov, range) == SubBox(subfov, 1, subfov[Len(subfov)].xyz, range)
  IN IF ~hemisphere \/ pairs = <<>> THEN [ok |-> FALSE, boxes |-> <<>>]
     ELSE IF crossing_count = 0 THEN
       [ok |-> TRUE, boxes |-> << Box(pairs, InvertedRange) >>]
     ELSE IF crossing_count % 2 = 1 THEN
       [ok |-> TRUE, boxes |-> << Box(pairs, PoleRange(uvavg)) >>]
     ELSE IF halves.eastfov = <<>> \/ halves.westfov = <<>> THEN
       [ok |-> FALSE, boxes |-> <<>>]
     ELSE
       [ok |-> TRUE, boxes |-> << Box(halves.westfov, InvertedRange),
                                   Box(halves.eastfov, InvertedRange) >>]

\* A variant of hang_ok with no upper limit
hang_okMut(hangdeg) == hangdeg > 0
\* The assertions on the half-angle of a cone (lines 105-106)
hang_ok(hangdeg) == hangdeg < 90 /\ hangdeg > 0

\* ------------------------------------------------------------ FOV.__init__
\* The constructor; NoFOV where an assertion fails or an exception leaves it
NewFOV(fovtype, radecdegs, uvfovxyzs, hangdeg, boxes) ==
  [ok |-> TRUE, fovtype |-> fovtype, L |-> Len(radecdegs),
   radecdegs |-> radecdegs, uvfovxyzs |-> uvfovxyzs, hangdeg |-> hangdeg,
   radec_boxes |-> boxes, has_convex |-> FALSE, convex |-> FALSE,
   inwardsidenorms |-> <<>>, obs_pos |-> None, obs_vel |-> None,
   obs_year |-> None]
FOVinit(raws) ==
  LET L == Len(raws)
      IsScalar(item) == Len(item) = 1
      parsed == [i \in 1..L |-> parse_inertial(raws[i])]
      radecdegs == [i \in 1..L |-> <<parsed[i].ra, parsed[i].dec>>]
      uvfovxyzs == [i \in 1..L |-> parsed[i].uvxyz]
  IN IF ~(1 < L) THEN NoFOV
     ELSE IF L = 2 /\ IsScalar(raws[2]) THEN
       LET hangdeg == raws[2][1]
           first == parse_inertial(raws[1])
       IN IF ~first.ok \/ ~hang_ok(hangdeg) THEN NoFOV
          ELSE IF ConeRaises(first.dec, hangdeg) THEN NoFOV
          ELSE NewFOV(CIRCLETYPE, << <<first.ra, first.dec>> >>, <<first.uvxyz>>,
                      hangdeg, ConeBoxes(first.ra, first.dec, hangdeg))
     ELSE IF \E i \in 1..L : ~parsed[i].ok THEN NoFOV
     ELSE IF L = 2 THEN
       NewFOV(RADECBOXTYPE, radecdegs, uvfovxyzs, 0, BoxBoxes(radecdegs))
     ELSE
       LET poly == PolygonBoxes(radecdegs, uvfovxyzs)
       IN IF poly.ok
          THEN NewFOV(POLYGONTYPE, radecdegs, uvfovxyzs, 0, poly.boxes)
          ELSE NoFOV

\* FOV(fovraws, obs_pos, obs_vel, obs_year): the three are stored as given
\* (lines 75-79); an argument that is given is held as <<value>>, None as <<>>
FOVobs(raws, o) ==
  [obs_pos |-> o[1], obs_vel |-> o[2], obs_year |-> o[3]] @@ FOVinit(raws)

get_radec_boxes(f) == f.radec_boxes

\* --------------------------------------------------------------- is_convex
\* The tests of one side's normal against the vertices uvs: onepos, oneneg,
\* and whether a zero dot product ends is_convex
AnyPos(norm, uvs) == \E i \in 1..Len(uvs) : 0 < vdot(norm, uvs[i])
AnyNeg(norm, uvs) == \E i \in 1..Len(uvs) : 0 > vdot(norm, uvs[i])
AnyZero(norm, uvs) == \E i \in 1..Len(uvs) : 0 = vdot(norm, uvs[i])
Front(seq) == SubSeq(seq, 1, Len(seq) - 1)

\* The while loop of is_convex (lines 540-556); uvuseds is empty throughout
RECURSIVE ConvexLoop(_, _, _, _, _)
ConvexLoop(uvlefts, uv0, onepos, oneneg, norms) ==
  IF uvlefts = <<>> \/ (oneneg /\ onepos)
  THEN [convex |-> onepos # oneneg, inwardsidenorms |-> norms]
  ELSE LET uv1 == uv0
           next0 == uvlefts[Len(uvlefts)]
           rest == Front(uvlefts)
           norm == ucrss(next0, uv1)
           p == onepos \/ AnyPos(norm, rest)
           n == oneneg \/ AnyNeg(norm, rest)
       IN IF AnyZero(norm, rest)
          THEN [convex |-> FALSE, inwardsidenorms |-> norms]
          ELSE ConvexLoop(rest, next0, p, n,
                          Append(norms, IF p THEN norm ELSE vminus(norm)))

\* A variant of is_convex that tests the first side only
is_convexMut(uvfovxyzs) ==
  LET uvlefts == uvfovxyzs
      norm == ucrss(uvlefts[Len(uvlefts)], uvlefts[1])
      mids == SubSeq(uvlefts, 2, Len(uvlefts) - 1)
      p == AnyPos(norm, mids)
      n == AnyNeg(norm, mids)
  IN IF AnyZero(norm, mids) THEN [convex |-> FALSE, inwardsidenorms |-> <<>>]
     ELSE [convex |-> p # n,
           inwardsidenorms |-> << IF p THEN norm ELSE vminus(norm) >>]
\* is_convex on a polygon that has no convex attribute yet (lines 522-559)
is_convex(uvfovxyzs) ==
  LET uvlefts == uvfovxyzs
      norm == ucrss(uvlefts[Len(uvlefts)], uvlefts[1])
      mids == SubSeq(uvlefts, 2, Len(uvlefts) - 1)
      p == AnyPos(norm, mids)
      n == AnyNeg(norm, mids)
  IN IF AnyZero(norm, mids) THEN [convex |-> FALSE, inwardsidenorms |-> <<>>]
     ELSE ConvexLoop(Front(uvlefts), uvlefts[Len(uvlefts)], p, n,
                     << IF p THEN norm ELSE vminus(norm) >>)

\* ------------------------------------------------------------- star_in_fov
\* A variant of WithConvex that computes the convexity on every call and
\* adds the normals to the ones it holds
WithConvexMut(f) ==
  IF f.fovtype # POLYGONTYPE THEN f
  ELSE LET c == is_convex(f.uvfovxyzs)
       IN [f EXCEPT !.has_convex = TRUE, !.convex = c.convex,
                    !.inwardsidenorms = f.inwardsidenorms \o c.inwardsidenorms]
\* The FOV after is_convex has run (the convex attribute is kept)
WithConvex(f) ==
  IF f.fovtype # POLYGONTYPE \/ f.has_convex THEN f
  ELSE LET c == is_convex(f.uvfovxyzs)
       IN [f EXCEPT !.has_convex = TRUE, !.convex = c.convex,
                    !.inwardsidenorms = c.inwardsidenorms]

\* One pass of the loop over the boxes: none of the four continue tests
\* fires (lines 431-434)
InRaDecBoxMut(b, ra, dec) ==
  ~(ra < b[1]) /\ ~(ra >= b[2]) /\ ~(dec < b[3]) /\ ~(dec > b[4])
InRaDecBox(b, ra, dec) ==
  ~(ra < b[1]) /\ ~(ra > b[2]) /\ ~(dec < b[3]) /\ ~(dec > b[4])

\* sp.vdot(uvinertial, self.uv_cone_axis) >= self.min_cosine (line 477)
InConeMut(f, uvinertial) ==
  RootLT(CosDeg(f.hangdeg), CosOf(uvinertial, f.uvfovxyzs[1]))
InCone(f, uvinertial) ==
  RootLE(CosDeg(f.hangdeg), CosOf(uvinertial, f.uvfovxyzs[1]))

\* ------------------------------------------------------------ corrections
\* The corrections add a small vector to the unit vector of the star and
\* normalise.  The model holds a vector up to a positive factor, so the size
\* of a correction is in units of the length of the vector it is added to:
\* pmra, pmdec stand for rpmas * pm, parallax for aupkm * rpmas * parallax,
\* obs_vel for recip_clight * obs_vel, each in those units.
vscl(k, a) == << k * a[1], k * a[2], k * a[3] >>
vsub(a, b) == << a[1] - b[1], a[2] - b[2], a[3] - b[3] >>
\* The conditions of lines 446-448, 459-461 and 468
pm_applies(f, pmra, pmdec) ==
  /\ ~(None = f.obs_year)
  /\ ~(pmra = None \/ pmdec = None)
  /\ (pmra[1] # 0 \/ pmdec[1] # 0)
parallax_applies(f, parallax) ==
  /\ ~(None = f.obs_pos)
  /\ ~(None = parallax)
  /\ parallax[1] # 0
aberration_applies(f) == ~(None = f.obs_vel)
\* Proper motion (lines 449-456)
pm_step(f, uvraw, uvinertial, pmra, pmdec) ==
  LET uveast == ucrss(<<0, 0, 1>>, uvraw)
      uvnorth == ucrss(uvraw, uveast)
  IN vhat(vadd(vadd(vscl(f.obs_year[1] * pmdec[1], uvnorth),
                    vscl(f.obs_year[1] * pmra[1], uveast)), uvinertial))
\* Parallax (lines 462-465)
parallax_step(f, uvinertial, parallax) ==
  vhat(vsub(uvinertial, vscl(parallax[1], f.obs_pos[1])))
\* Stellar aberration (lines 469-472)
aberration_step(f, uvinertial) == vhat(vadd(uvinertial, f.obs_vel[1]))

\* A variant of corrections that applies parallax ahead of proper motion
correctionsSwap(f, uvraw, parallax, pmra, pmdec) ==
  LET pm == pm_applies(f, pmra, pmdec)
      par == parallax_applies(f, parallax)
      ab == aberration_applies(f)
      u1 == IF par THEN parallax_step(f, uvraw, parallax) ELSE uvraw
      u2 == IF pm THEN pm_step(f, uvraw, u1, pmra, pmdec) ELSE u1
      u3 == IF ab THEN aberration_step(f, u2) ELSE u2
  IN [uvinertial |-> u3,
      steps |-> (IF par THEN <<"parallax">> ELSE <<>>)
                  \o (IF pm THEN <<"pm">> ELSE <<>>)
                  \o (IF ab THEN <<"aberration">> ELSE <<>>)]
\* A variant of corrections that applies parallax with no observer position,
\* from the position <<1, 1, 1>>
correctionsNoPos(f, uvraw, parallax, pmra, pmdec) ==
  LET pm == pm_applies(f, pmra, pmdec)
      par == ~(None = parallax) /\ parallax[1] # 0
      ab == aberration_applies(f)
      pos == IF f.obs_pos = None THEN <<1, 1, 1>> ELSE f.obs_pos[1]
      u1 == IF pm THEN pm_step(f, uvraw, uvraw, pmra, pmdec) ELSE uvraw
      u2 == IF par THEN vhat(vsub(u1, vscl(parallax[1], pos))) ELSE u1
      u3 == IF ab THEN aberration_step(f, u2) ELSE u2
  IN [uvinertial |-> u3,
      steps |-> (IF pm THEN <<"pm">> ELSE <<>>)
                  \o (IF par THEN <<"parallax">> ELSE <<>>)
                  \o (IF ab THEN <<"aberration">> ELSE <<>>)]
\* The corrections for direction to star (lines 438-472): the corrected
\* vector, and the names of the steps that ran, in their order
corrections(f, uvraw, parallax, pmra, pmdec) ==
  LET pm == pm_applies(f, pmra, pmdec)
      par == parallax_applies(f, parallax)
      ab == aberration_applies(f)
      u1 == IF pm THEN pm_step(f, uvraw, uvraw, pmra, pmdec) ELSE uvraw
      u2 == IF par THEN parallax_step(f, u1, parallax) ELSE u1
      u3 == IF ab THEN aberration_step(f, u2) ELSE u2
  IN [uvinertial |-> u3,
      steps |-> (IF pm THEN <<"pm">> ELSE <<>>)
                  \o (IF par THEN <<"parallax">> ELSE <<>>)
                  \o (IF ab THEN <<"aberration">> ELSE <<>>)]

\* The convex test of lines 487-491, on the FOV after is_convex has run
InConvex(f, uvinertial) ==
  \A i \in 1..Len(f.inwardsidenorms) :
    ~(vdot(uvinertial, f.inwardsidenorms[i]) < 0)

\* star_in_fov(vstar, parallax_maspau, pmra_maspy, pmdec_maspy) on an RA,Dec
\* pair: the pair <<in, uv>>.  The polygon branch is the convex one (lines
\* 484-491).
star_in_fov_args(f, star, parallax, pmra, pmdec) ==
  LET ra == star[1]
      dec == star[2]
      uvraw == parse_inertial(star).uvxyz
      uvinertial == corrections(f, uvraw, parallax, pmra, pmdec).uvinertial
  IN IF f.fovtype = RADECBOXTYPE THEN
       IF \E i \in 1..Len(f.radec_boxes) : InRaDecBox(f.radec_boxes[i], ra, dec)
       THEN <<TRUE, radrec(ra, dec)>>
       ELSE <<FALSE, None>>
     ELSE IF f.fovtype = CIRCLETYPE THEN
       << InCone(f, uvinertial), uvinertial >>
     ELSE
       << \A g \in {WithConvex(f)}, uv \in {uvinertial} : InConvex(g, uv),
          uvinertial >>
\* The steps that call applied: none for a box FOV, which returns first
steps_applied(f, star, parallax, pmra, pmdec) ==
  IF f.fovtype = RADECBOXTYPE THEN <<>>
  ELSE corrections(f, parse_inertial(star).uvxyz, parallax, pmra, pmdec).steps

\* star_in_fov(vstar), the other arguments at their default None
star_in_fov(f, star) == star_in_fov_args(f, star, None, None, None)

\* ------------------------------------------- the crossing-number test
\* The azimuths of the sides (lines 206-209): TRUE where the quotient is
\* 0/0, which is NaN: a vertex with the X and Y of the vertex before it.
\* The first azimuth is taken from vtmps[-1], a vector of the local frame.
azimuth_nan(uvfovxyzs) ==
  [i \in 1..Len(uvfovxyzs) |->
     /\ i > 1
     /\ uvfovxyzs[i][1] = uvfovxyzs[i - 1][1]
     /\ uvfovxyzs[i][2] = uvfovxyzs[i - 1][2]]
\* meanaz is NaN (lines 211-218), for three sides: sort leaves a NaN that is
\* second of three where it is and puts one that is third last, and max
\* returns the first difference where that is NaN
meanaz_nan(uvfovxyzs) ==
  Len(uvfovxyzs) = 3 /\ azimuth_nan(uvfovxyzs)[2]
\* Lines 493-509 for an FOV whose meanaz is NaN: the third row of mtxtofov is
\* uvavg, the others are NaN, so that X and Y of every local vector are NaN,
\* no test of FOVSIDE.right_of is true, and every side counts
crossing_number(f, uvinertial) ==
  LET uvavg == vhat(fovsum(f.uvfovxyzs))
      count == f.L
  IN IF ~(vdot(uvavg, uvinertial) > 0) THEN <<FALSE, uvinertial>>
     ELSE << count % 2 = 1, uvinertial >>

\* ----------------------------------------------------------------- FOVSIDE
\* A point of the local plane Z = 1 is <<x, y>>; m and b are quotients of
\* integers, held as <<numerator, denominator>>
\* FOVSIDE.__init__ (lines 612-624)
FOVSIDE(v0, v1) ==
  LET d == v1[2] - v0[2]
      mn == v1[1] - v0[1]
  IN [xhi |-> Max2(v0[1], v1[1]),
      yhi |-> IF v0[2] > v1[2] THEN v0[2] ELSE v1[2],
      ylo |-> IF v0[2] > v1[2] THEN v1[2] ELSE v0[2],
      m |-> <<mn, d>>,
      b |-> <<v0[1] * d - v0[2] * mn, d>>]

\* x > q for an integer x and a quotient q
GtQuot(x, q) == IF q[2] > 0 THEN x * q[2] > q[1] ELSE x * q[2] < q[1]
\* (y * m) + b of line 636
SideX(side, y) == << y * side.m[1] + side.b[1], side.m[2] >>

\* A variant of right_of that takes the maximum y of the side in
right_ofMut(side, v) ==
  LET x == v[1]
      y == v[2]
  IN IF y < side.ylo THEN FALSE
     ELSE IF y > side.yhi THEN FALSE
     ELSE IF x > side.xhi THEN FALSE
     ELSE IF GtQuot(x, SideX(side, y)) THEN FALSE
     ELSE TRUE
\* FOVSIDE.right_of (lines 626-637)
right_of(side, v) ==
  LET x == v[1]
      y == v[2]
  IN IF y < side.ylo THEN FALSE
     ELSE IF y >= side.yhi THEN FALSE
     ELSE IF x > side.xhi THEN FALSE
     ELSE IF GtQuot(x, SideX(side, y)) THEN FALSE
     ELSE TRUE

\* The sides setup_localxyzs builds: each vertex with the one before it, the
\* first with the last (lines 566-570)
setup_fovsides(xyzs) ==
  [i \in 1..Len(xyzs) |->
     FOVSIDE(xyzs[i], xyzs[IF i = 1 THEN Len(xyzs) ELSE i - 1])]

\* ------------------------------------------------- the FOV specification
\* Triangles on twelve directions of one length.  Left out are the inputs on
\* which a test of the code compares two equal reals, so that rounding decides
\* it: vertices on one great circle (the dot products of is_convex), a vertex
\* at a right angle to the mean direction (the hemisphere assertion), and RA
\* 180 after RA 0 (both have Y = 0, and k1 is 0/0)
PolyVerts == { v \in Grid : v[1] < 360 /\ vnorm2(radrec(v[1], v[2])) = 2 }
Triangles ==
  { t \in PolyVerts \X PolyVerts \X PolyVerts :
      LET uv == [i \in 1..3 |-> radrec(t[i][1], t[i][2])]
      IN /\ vdot(vcrss(uv[1], uv[2]), uv[3]) # 0
         /\ \A i \in 1..3 : vdot(fovsum(uv), uv[i]) # 0
         /\ \A i \in 1..3 : ~(t[i][1] = 0 /\ t[(i % 3) + 1][1] = 180) }
\* Cones whose RA limits the grid holds exactly
Cones ==
  { c \in Grid \X Hangs :
      LET dec == c[1][2]
          h == c[2][1]
      IN \/ h <= 0 \/ h >= 90
         \/ Abs(dec) + h >= 90
         \/ dec = 0
         \/ Abs(dec) = 45 /\ h = 30 }
FovInputs ==
  (Grid \X Grid) \cup (OffRange \X Grid) \cup (Grid \X OffRange)
    \cup Cones \cup Triangles \cup { <<v>> : v \in OffRange }
Stars == Grid

InitFOV ==
  /\ fovraws \in FovInputs
  /\ fov = NoFOV
  /\ fpc = "new"
  /\ vstar = None
  /\ rtn = None
  /\ obs = <<None, None, None>>
  /\ vcorr = <<None, None, None>>
  /\ applied = <<>>
  /\ crossrtn = None
  /\ streams = <<>>
  /\ rtn_limit = 0
  /\ gaiasqls = <<>>
  /\ rtn_stars = <<>>
  /\ objs = <<>>
  /\ rtn_ids = <<>>
  /\ scans = [id \in (1..MaxBoxes) \X (1..MaxLen) |-> 0]
  /\ pc = "idle"
  /\ NoSides

\* FOV(fovraws, obs_pos, obs_vel, obs_year) returns
Construct ==
  /\ fpc = "new"
  /\ \E f \in {FOVobs(fovraws, obs)} : f.ok /\ fov' = f
  /\ fpc' = "built"
  /\ UNCHANGED <<fovraws, vstar, rtn, obs, vcorr, applied, crossrtn>>
  /\ UNCHANGED mvars
  /\ UNCHANGED svars

\* FOV(fovraws, obs_pos, obs_vel, obs_year) raises
ConstructRaise ==
  /\ fpc = "new"
  /\ ~FOVobs(fovraws, obs).ok
  /\ fpc' = "failed"
  /\ UNCHANGED <<fovraws, fov, vstar, rtn, obs, vcorr, applied, crossrtn>>
  /\ UNCHANGED mvars
  /\ UNCHANGED svars

\* fov.star_in_fov(star); on a polygon that is not convex the call goes on to
\* lines 493-509, which are modelled for a NaN frame only (CrossingNumber), so
\* the call is made on the other FOVs
StarInFov ==
  /\ fpc = "built"
  /\ \E star \in Stars, g \in {WithConvex(fov)} :
       /\ g.fovtype = POLYGONTYPE => g.convex
       /\ vstar' = star
       /\ rtn' = star_in_fov(fov, star)
       /\ applied' = steps_applied(fov, star, None, None, None)
       /\ fov' = g
  /\ vcorr' = <<None, None, None>>
  /\ crossrtn' = None
  /\ UNCHANGED <<fovraws, fpc, obs>>
  /\ UNCHANGED mvars
  /\ UNCHANGED svars

\* Lines 493-509 on the FOV and the vector star_in_fov returned, for a
\* polygon whose meanaz is NaN
CrossingNumber ==
  /\ fpc = "built"
  /\ fov.fovtype = POLYGONTYPE
  /\ meanaz_nan(fov.uvfovxyzs)
  /\ rtn # None
  /\ crossrtn' = crossing_number(fov, rtn[2])
  /\ UNCHANGED <<fovraws, fov, fpc, vstar, rtn, obs, vcorr, applied>>
  /\ UNCHANGED mvars
  /\ UNCHANGED svars

NextFOV == Construct \/ ConstructRaise \/ StarInFov \/ CrossingNumber
SpecFOV == InitFOV /\ [][NextFOV]_vars

\* ------------------------------------------ the corrections specification
\* FOVs with an observer position, velocity and year, each given or not
CorrFovs ==
  { << <<0, 0>>, <<45>> >>, << <<90, 45>>, <<30>> >>, << <<0, 0>>, <<90>> >>,
    << <<0, -45>>, <<90, 0>> >>, << <<0, -45>>, <<0, 45>>, <<45, 0>> >> }
ObsSet ==
  { None, << <<0, 1, 0>> >> } \X { None, << <<0, 0, 1>> >> } \X { None, <<0>>, <<1>> }
\* parallax, pmra and pmdec of a row: absent, zero, or not zero
RowValues == { None, <<0>>, <<1>> }
CorrStars == { <<0, 0>>, <<45, 0>>, <<90, 45>>, <<180, 0>>, <<270, -45>> }

InitCorr ==
  /\ fovraws \in CorrFovs
  /\ obs \in ObsSet
  /\ fov = NoFOV
  /\ fpc = "new"
  /\ vstar = None
  /\ rtn = None
  /\ vcorr = <<None, None, None>>
  /\ applied = <<>>
  /\ crossrtn = None
  /\ streams = <<>>
  /\ rtn_limit = 0
  /\ gaiasqls = <<>>
  /\ rtn_stars = <<>>
  /\ objs = <<>>
  /\ rtn_ids = <<>>
  /\ scans = [id \in (1..MaxBoxes) \X (1..MaxLen) |-> 0]
  /\ pc = "idle"
  /\ NoSides

\* fov.star_in_fov(star, parallax, pmra, pmdec)
StarInFovRow ==
  /\ fpc = "built"
  /\ \E star \in CorrStars, parallax \in RowValues, pmra \in RowValues,
        pmdec \in RowValues :
       /\ vstar' = star
       /\ vcorr' = <<parallax, pmra, pmdec>>
       /\ rtn' = star_in_fov_args(fov, star, parallax, pmra, pmdec)
       /\ applied' = steps_applied(fov, star, parallax, pmra, pmdec)
       /\ fov' = WithConvex(fov)
  /\ crossrtn' = None
  /\ UNCHANGED <<fovraws, fpc, obs>>
  /\ UNCHANGED mvars
  /\ UNCHANGED svars

NextCorr == Construct \/ ConstructRaise \/ StarInFovRow
SpecCorr == InitCorr /\ [][NextCorr]_vars

\* -------------------------------------------- the convexity specification
\* Quadrilaterals on the twelve directions, in every vertex order: convex
\* ones and ones whose sides cross.  No three vertices on one great circle,
\* as for Triangles
Quads ==
  { t \in PolyVerts \X PolyVerts \X PolyVerts \X PolyVerts :
      LET uv == [i \in 1..4 |-> radrec(t[i][1], t[i][2])]
      IN /\ \A i, j \in 1..4 : i # j => t[i] # t[j]
         /\ \A i, j, k \in 1..4 :
              (i < j /\ j < k) => vdot(vcrss(uv[i], uv[j]), uv[k]) # 0
         /\ \A i \in 1..4 : vdot(fovsum(uv), uv[i]) # 0
         /\ \A i \in 1..4 : ~(t[i][1] = 0 /\ t[(i % 4) + 1][1] = 180) }
\* A quadrilateral with the third vertex on the great circle of the fourth
\* and the first: that dot product of is_convex is 0.0 in floating point too
FlatQuads == { << <<0, -45>>, <<0, 45>>, <<45, 0>>, <<270, -45>> >> }
ConvexInputs == Quads \cup FlatQuads

InitConvex ==
  /\ fovraws \in ConvexInputs
  /\ fov = NoFOV
  /\ fpc = "new"
  /\ vstar = None
  /\ rtn = None
  /\ obs = <<None, None, None>>
  /\ vcorr = <<None, None, None>>
  /\ applied = <<>>
  /\ crossrtn = None
  /\ streams = <<>>
  /\ rtn_limit = 0
  /\ gaiasqls = <<>>
  /\ rtn_stars = <<>>
  /\ objs = <<>>
  /\ rtn_ids = <<>>
  /\ scans = [id \in (1..MaxBoxes) \X (1..MaxLen) |-> 0]
  /\ pc = "idle"
  /\ NoSides

\* fov.is_convex(); its return value is the convex attribute it leaves
IsConvex ==
  /\ fpc = "built"
  /\ fov.fovtype = POLYGONTYPE
  /\ fov' = WithConvex(fov)
  /\ UNCHANGED <<fovraws, fpc, vstar, rtn, obs, vcorr, applied, crossrtn>>
  /\ UNCHANGED mvars
  /\ UNCHANGED svars

\* (the constructor accepts every one of ConvexInputs)
NextConvex == Construct \/ IsConvex \/ StarInFov
SpecConvex == InitConvex /\ [][NextConvex]_vars

\* ------------------------------------------------ the sides specification
\* Triangles of the local plane with whole coordinates and the points tested
\* against their sides.  No side is parallel to X: mtxtofov turns +X away
\* from every side (lines 203-221), and m of such a side is a division by 0
PlaneMax == 1
PlaneVerts == (-PlaneMax..PlaneMax) \X (-PlaneMax..PlaneMax)
PlanePolys ==
  { t \in PlaneVerts \X PlaneVerts \X PlaneVerts :
      t[1][2] # t[2][2] /\ t[2][2] # t[3][2] /\ t[1][2] # t[3][2] }
PlanePoints == (-(PlaneMax + 1)..(PlaneMax + 1)) \X (-(PlaneMax + 1)..(PlaneMax + 1))

InitSide ==
  /\ localxyzs \in PlanePolys
  /\ fovsides = <<>>
  /\ z1star = <<>>
  /\ hits = <<>>
  /\ fovraws = <<>> /\ fov = NoFOV /\ fpc = "idle" /\ vstar = <<>> /\ rtn = <<>>
  /\ obs = <<None, None, None>> /\ vcorr = <<None, None, None>>
  /\ applied = <<>> /\ crossrtn = None
  /\ streams = <<>>
  /\ rtn_limit = 0
  /\ gaiasqls = <<>>
  /\ rtn_stars = <<>>
  /\ objs = <<>>
  /\ rtn_ids = <<>>
  /\ scans = [id \in (1..MaxBoxes) \X (1..MaxLen) |-> 0]
  /\ pc = "idle"

\* setup_localxyzs builds the sides, once (line 501)
SetupLocalxyzs ==
  /\ localxyzs # <<>>
  /\ fovsides = <<>>
  /\ fovsides' = setup_fovsides(localxyzs)
  /\ UNCHANGED <<localxyzs, z1star, hits>>
  /\ UNCHANGED mvars
  /\ UNCHANGED fvars

\* fovside.right_of(z1star) for every side (lines 504-507)
RightOf ==
  /\ fovsides # <<>>
  /\ \E v \in PlanePoints :
       /\ z1star' = v
       /\ hits' = [i \in 1..Len(fovsides) |-> right_of(fovsides[i], v)]
  /\ UNCHANGED <<localxyzs, fovsides>>
  /\ UNCHANGED mvars
  /\ UNCHANGED fvars

NextSide == SetupLocalxyzs \/ RightOf
SpecSide == InitSide /\ [][NextSide]_vars

\* ----------------------------------------------------------- merge claims
\* The order in which the merge visits rows: by magnitude, ties by box index,
\* then by position in the stream
Before(a, b) ==
  \/ a.mean_mag < b.mean_mag
  \/ /\ a.mean_mag = b.mean_mag
     /\ \/ a.idoffset[1] < b.idoffset[1]
        \/ a.idoffset[1] = b.idoffset[1] /\ a.idoffset[2] < b.idoffset[2]

RECURSIVE SortRows(_)
SortRows(S) ==
  IF S = {} THEN <<>>
  ELSE LET m == CHOOSE r \in S : \A q \in S \ {r} : Before(r, q)
       IN <<m>> \o SortRows(S \ {m})

AllRows == { streams[id[1]][id[2]] : id \in RowIds }
AcceptedRows == { r \in AllRows : r.in_fov }
Take(s, n) == SubSeq(s, 1, IF n < Len(s) THEN n ELSE Len(s))
Exhausted(i) == gaiasqls[i].done /\ gaiasqls[i].row = None
Returned == pc = "done"

C2_AtMostLimit ==
  /\ Len(rtn_stars) <= rtn_limit
  /\ rtn_limit = 0 => rtn_stars = <<>> /\ \A id \in RowIds : scans[id] = 0

\* C2 witness: the loop ended on the limit while a cursor still holds a row
C2_Witness ==
  /\ Returned
  /\ rtn_limit > 0
  /\ Len(rtn_stars) = rtn_limit
  /\ \E i \in 1..Len(gaiasqls) : gaiasqls[i].row # None

\* C3: when the loop has ended the result list is the first rtn_limit rows of
\* the magnitude-ordered merge of all rows the FOV test accepts; the loop ends
\* only on the limit or with every cursor exhausted; no accepted row of smaller
\* magnitude than the last result is left unexamined
C3_TopK ==
  Returned =>
    /\ rtn_stars = Take(SortRows(AcceptedRows), rtn_limit)
    /\ Len(rtn_stars) = rtn_limit \/ \A i \in 1..Len(gaiasqls) : Exhausted(i)
    /\ \A r \in AcceptedRows :
         (scans[r.idoffset] = 0 /\ rtn_stars # <<>>) =>
            r.mean_mag >= rtn_stars[Len(rtn_stars)].mean_mag

\* C3 witness: the limit cut the merge short of an accepted row, after a
\* rejected row was examined
C3_Witness ==
  /\ Returned
  /\ rtn_limit = 2
  /\ Len(rtn_stars) = 2
  /\ \E r \in AcceptedRows : scans[r.idoffset] = 0
  /\ \E r \in AllRows \ AcceptedRows : scans[r.idoffset] = 1

\* C4: every row is passed to star_in_fov at most once and appended at most
\* once; the head row of a cursor in the loop has not been examined yet
C4_NoRescan ==
  /\ \A id \in RowIds : scans[id] <= 1
  /\ \A j, k \in 1..Len(rtn_stars) : j # k => rtn_stars[j].idoffset # rtn_stars[k].idoffset
  /\ \A i \in 1..Len(gaiasqls) :
       (pc = "loop" /\ gaiasqls[i].row # None) => scans[gaiasqls[i].row[1].idoffset] = 0

\* C4 witness: the merge ran through two full streams, each row examined once
C4_Witness ==
  /\ Returned
  /\ Len(streams) = 2
  /\ \A i \in 1..Len(streams) : Len(streams[i]) = MaxLen
  /\ \A id \in RowIds : scans[id] = 1

\* Rows fetched plus cursors exhausted: the progress measure of the loop
RECURSIVE ProgressFrom(_, _)
ProgressFrom(gs, i) ==
  IF i > Len(gs) THEN 0
  ELSE gs[i].count + (IF gs[i].done THEN 1 ELSE 0) + ProgressFrom(gs, i + 1)
Progress(gs) == ProgressFrom(gs, 1)

\* C5: the merge loop terminates: every pass that does not leave the loop
\* advances exactly one cursor by one step, and gaiaif eventually returns or
\* raises
C5_Terminates ==
  /\ [][(pc = "loop" /\ pc' = "loop") => Progress(gaiasqls') = Progress(gaiasqls) + 1]_vars
  /\ <>(pc \in {"done", "raised"})

\* C5 witness: the loop ended by exhausting two full streams
C5_Witness ==
  /\ Returned
  /\ Len(streams) = 2
  /\ \A i \in 1..Len(gaiasqls) : Exhausted(i) /\ gaiasqls[i].count = MaxLen
  /\ Len(rtn_stars) < rtn_limit

\* C6 (as claimed): on return every cursor has been released exactly once
C6_ReleasedOnEveryExit ==
  Returned => \A i \in 1..Len(gaiasqls) : gaiasqls[i].closes = 1

\* C7 (as claimed): when an error leaves gaiaif every cursor opened so far has
\* been released
C7_ReleasedBeforeRaise ==
  pc = "raised" => \A i \in 1..Len(gaiasqls) : gaiasqls[i].closes = 1

\* ------------------------------------------------------------- FOV claims
Built == fpc = "built"
Accepted == Built /\ rtn # None /\ rtn[1]
\* Dec d (degrees) within the Dec limits of box b of FOV f; a polygon's box
\* holds the sines of its limits
DecInBox(f, b, d) ==
  IF f.fovtype = POLYGONTYPE
  THEN RootLE(b[3], SinDeg(d)) /\ RootLE(SinDeg(d), b[4])
  ELSE b[3] <= d /\ d <= b[4]
\* The direction of the RA,Dec pair s lies in box b: RA 0 and RA 360 are one
\* meridian, and a pole has every RA
DirInBox(f, b, s) ==
  /\ DecInBox(f, b, s[2])
  /\ IF Abs(s[2]) = 90 THEN b[1] <= b[2]
     ELSE \E ra \in (IF s[1] \in {0, 360} THEN {0, 360} ELSE {s[1]}) :
            b[1] <= ra /\ ra <= b[2]
InSomeBox(f, s) ==
  \E i \in 1..Len(get_radec_boxes(f)) : DirInBox(f, get_radec_boxes(f)[i], s)
\* Box b is well formed: 0 <= ralo <= rahi <= 360, -90 <= declo <= dechi <= 90
WellFormed(f, b) ==
  /\ 0 <= b[1] /\ b[1] <= b[2] /\ b[2] <= 360
  /\ IF f.fovtype = POLYGONTYPE
     THEN RootLE(SinDeg(-90), b[3]) /\ RootLE(b[3], b[4]) /\ RootLE(b[4], SinDeg(90))
     ELSE -90 <= b[3] /\ b[3] <= b[4] /\ b[4] <= 90

\* C8: every direction that star_in_fov accepts, with no correction in
\* play, lies in at least one of the boxes get_radec_boxes() returns; this
\* fails for a polygon whose vertex RAs do not first rise (lines 356-357)
C8_BoxesCoverFOV == Accepted => InSomeBox(fov, vstar)

\* C9: radec_boxes holds one or two boxes, each with 0 <= ralo <= rahi <= 360
\* and -90 <= declo <= dechi <= 90; this fails for the same polygons
C9_BoxesWellFormed ==
  Built => /\ Len(fov.radec_boxes) \in {1, 2}
           /\ \A i \in 1..Len(fov.radec_boxes) : WellFormed(fov, fov.radec_boxes[i])

\* C10: the boxes of an RA,Dec box FOV are [[lo,hi,dlo,dhi]] where the RA
\* span hi-lo is below 180, and [[0,lo,dlo,dhi],[hi,360,dlo,dhi]], in that
\* order, where it is 180 or more
C10_BoxRule ==
  (Built /\ fov.fovtype = RADECBOXTYPE) =>
    \E lo, hi \in RAs, dlo, dhi \in Decs :
      /\ {lo, hi} = {fovraws[1][1], fovraws[2][1]} /\ lo <= hi
      /\ {dlo, dhi} = {fovraws[1][2], fovraws[2][2]} /\ dlo <= dhi
      /\ (hi - lo < 180 => fov.radec_boxes = << <<lo, hi, dlo, dhi>> >>)
      /\ (hi - lo >= 180 =>
            fov.radec_boxes = << <<0, lo, dlo, dhi>>, <<hi, 360, dlo, dhi>> >>)
\* A box FOV across the Prime Meridian, corners (270,45) and (45,0), is built
\* as the two boxes [0,45] and [270,360]
C10_Witness ==
  /\ Built
  /\ fovraws = << <<270, 45>>, <<45, 0>> >>
  /\ fov.fovtype = RADECBOXTYPE
  /\ fov.radec_boxes = << <<0, 45, 0, 45>>, <<270, 360, 0, 45>> >>

\* star_in_fov has been called on the FOV
Called == Built /\ rtn # None

\* C11: a box FOV accepts an RA,Dec point iff the point lies in at least one
\* of the FOV's boxes, all four limits inclusive; for the box FOV from RA 270
\* to RA 90 across the Prime Meridian, RA 315 is inside and RA 180 is outside
C11_BoxMembership ==
  (Called /\ fov.fovtype = RADECBOXTYPE) =>
    /\ rtn[1] <=> \E i \in 1..Len(fov.radec_boxes) :
                    LET b == fov.radec_boxes[i]
                    IN /\ b[1] <= vstar[1] /\ vstar[1] <= b[2]
                       /\ b[3] <= vstar[2] /\ vstar[2] <= b[4]
    /\ fovraws = << <<270, -45>>, <<90, 45>> >> =>
         /\ vstar = <<315, 0>> => rtn[1]
         /\ vstar = <<180, 0>> => ~rtn[1]
\* The box FOV from RA 270 to RA 90 accepts a point on the upper RA limit of
\* its first box and the upper Dec limit
C11_Witness ==
  /\ Called
  /\ fovraws = << <<270, -45>>, <<90, 45>> >>
  /\ fov.radec_boxes = << <<0, 90, -45, 45>>, <<270, 360, -45, 45>> >>
  /\ vstar = <<90, 45>>
  /\ rtn[1]

CoveredRA(boxes, x) ==
  \E i \in 1..Len(boxes) : \E y \in {x, x + 360} : boxes[i][1] <= y /\ y <= boxes[i][2]
\* x lies in the range [lo, hi] modulo 360
InRangeMod(lo, hi, x) ==
  \E y \in {x - 360, x, x + 360} : lo <= y /\ y <= hi
ConeInput == Len(fovraws) = 2 /\ Len(fovraws[2]) = 1
ValidCone ==
  /\ ConeInput
  /\ fovraws[1] \in Grid
  /\ 0 < fovraws[2][1] /\ fovraws[2][1] < 90

\* C13: a cone FOV with axis (ra,dec) and half-angle h that encloses a pole
\* (dec-h < -90 or dec+h > 90) has the single box [0,360] in RA with the Dec
\* limits clamped to [-90,90]; with a pole exactly on its circumference its RA
\* range is ra-90 to ra+90; only otherwise is the half-width formula
\* evaluated, and then |dec| + h < 90 and the argument of its square root is
\* positive, so that no valid cone fails to build
C13_ConePoles ==
  /\ (ValidCone /\ fpc # "new") => Built
  /\ (Built /\ fov.fovtype = CIRCLETYPE) =>
       LET ra == fovraws[1][1]
           dec == fovraws[1][2]
           h == fovraws[2][1]
           enclosed == dec - h < -90 \/ dec + h > 90
           touching == ~enclosed /\ (dec - h = -90 \/ dec + h = 90)
       IN /\ enclosed =>
               fov.radec_boxes =
                 << <<0, 360, Max2(dec - h, -90), Min2(dec + h, 90)>> >>
          /\ touching =>
               /\ \A x \in 0..359 :
                    CoveredRA(fov.radec_boxes, x) <=> InRangeMod(ra - 90, ra + 90, x)
               /\ \A i \in 1..Len(fov.radec_boxes) :
                    fov.radec_boxes[i][3] = dec - h /\ fov.radec_boxes[i][4] = dec + h
          /\ formula_branch(dec, h) <=> (~enclosed /\ ~touching)
          /\ formula_branch(dec, h) =>
               Abs(dec) + h < 90 /\ sqrt_arg_positive(dec, h)
\* The cone of half-angle 30 about the north pole is built as the one box
\* [0,360,60,90]
C13_Witness ==
  /\ Built
  /\ fovraws = << <<0, 90>>, <<30>> >>
  /\ fov.fovtype = CIRCLETYPE
  /\ fov.radec_boxes = << <<0, 360, 60, 90>> >>

\* C14: the RA range [ra-d, ra+d] of a cone FOV that encloses no pole is
\* wrapped into [0,360] (lo+360 where lo < 0, hi-360 where hi > 360); with
\* lo <= hi after that there is exactly one box [lo,hi], otherwise exactly
\* the two boxes [0,hi] and [lo,360] with one Dec range, and the boxes cover
\* every longitude of the range before wrapping, modulo 360
C14_ConeWrap ==
  (Built /\ fov.fovtype = CIRCLETYPE
         /\ ~(fovraws[1][2] - fovraws[2][1] < -90 \/ fovraws[1][2] + fovraws[2][1] > 90)) =>
    LET ra == fovraws[1][1]
        dec == fovraws[1][2]
        h == fovraws[2][1]
        d == IF formula_branch(dec, h) THEN deltara(dec, h) ELSE 90
        lo == IF ra - d < 0 THEN ra - d + 360 ELSE ra - d
        hi == IF ra + d > 360 THEN ra + d - 360 ELSE ra + d
    IN /\ 0 <= lo /\ lo <= 360 /\ 0 <= hi /\ hi <= 360
       /\ lo <= hi => fov.radec_boxes = << <<lo, hi, dec - h, dec + h>> >>
       /\ lo > hi => fov.radec_boxes = << <<0, hi, dec - h, dec + h>>,
                                          <<lo, 360, dec - h, dec + h>> >>
       /\ \A x \in 0..359 :
            InRangeMod(ra - d, ra + d, x) => CoveredRA(fov.radec_boxes, x)
\* The cone of half-angle 30 about (0,0) has the RA range [-30,30] and is
\* built as the two boxes [0,30] and [330,360]
C14_Witness ==
  /\ Built
  /\ fovraws = << <<0, 0>>, <<30>> >>
  /\ fov.radec_boxes = << <<0, 30, -30, 30>>, <<330, 360, -30, 30>> >>


\* C15: for a convex polygon and any direction, the test by inward side
\* normals and the crossing-number test give the same answer.
C15_PathsAgree ==
  (Built /\ rtn # None /\ crossrtn # None) => crossrtn[1] = rtn[1]

\* C16: star_in_fov returns the unit vector of the star as its second
\* element for every FOV type, also when the star is outside.
C16_VectorAlwaysReturned ==
  Called => rtn[2] # None

\* C17: a two-item FOV whose second item is a number is a cone only if
\* that number is greater than 0 and less than 90; otherwise the constructor
\* fails, and the input is never taken as a box.  Fewer than two items are
\* rejected.
C17_HalfAngleRange ==
  fpc # "new" =>
    /\ ConeInput =>
         /\ Built => (fov.fovtype = CIRCLETYPE /\ fovraws[2][1] > 0 /\ fovraws[2][1] < 90)
         /\ (fovraws[2][1] <= 0 \/ fovraws[2][1] >= 90) => fpc = "failed"
    /\ Len(fovraws) < 2 => fpc = "failed"
C17_Witness ==
  fpc = "failed" /\ fovraws = << <<0, 0>>, <<90>> >>

\* C18: a (longitude, latitude) pair is accepted only if the longitude is
\* at least 0 and less than 360 and the latitude is from -90 to 90; a
\* longitude of exactly 360 is rejected.
C18_LongitudeBelow360 ==
  Built =>
    \A i \in 1..Len(fovraws) :
      Len(fovraws[i]) = 2 =>
        /\ fovraws[i][1] >= 0 /\ fovraws[i][1] < 360
        /\ fovraws[i][2] >= -90 /\ fovraws[i][2] <= 90

\* The conditions of the three corrections, from the arguments of the
\* constructor and of the call
PmCase ==
  /\ obs[3] # None
  /\ vcorr[2] # None /\ vcorr[3] # None
  /\ ~(vcorr[2] = <<0>> /\ vcorr[3] = <<0>>)
ParallaxCase == obs[1] # None /\ vcorr[1] # None /\ vcorr[1] # <<0>>
AberrationCase == obs[2] # None
NominalVector == radrec(vstar[1], vstar[2])
AfterPm ==
  IF PmCase THEN pm_step(fov, NominalVector, NominalVector, vcorr[2], vcorr[3])
  ELSE NominalVector
AfterParallax ==
  IF ParallaxCase THEN parallax_step(fov, AfterPm, vcorr[1]) ELSE AfterPm
AfterAberration ==
  IF AberrationCase THEN aberration_step(fov, AfterParallax) ELSE AfterParallax
ConeOrPolygon == fov.fovtype \in {CIRCLETYPE, POLYGONTYPE}

C21_BoxTestsCorrected ==
  (Called /\ fov.fovtype = RADECBOXTYPE) =>
    \A s \in Grid :
      radrec(s[1], s[2]) = AfterAberration => rtn[1] = InSomeBox(fov, s)

\* The head row of cursor i, where it has one
HasHead(i) == get_row(gaiasqls[i]) # None
HeadRow(i) == get_row(gaiasqls[i])[1]
\* Cursor k is the one a pass of the loop selects: its head has the least
\* magnitude of all heads, and every head before it has a greater one
FirstMinimum(k) ==
  /\ HasHead(k)
  /\ \A j \in 1..Len(gaiasqls) :
       HasHead(j) => /\ HeadRow(k).mean_mag <= HeadRow(j).mean_mag
                     /\ j < k => HeadRow(j).mean_mag > HeadRow(k).mean_mag
\* A pass of the loop that examines a row
Pass == pc = "loop" /\ scans' # scans

\* C22: the row a pass selects is a head row of least magnitude among the
\* heads of the cursors that are not exhausted, and of several heads of that
\* magnitude the one of the lowest box index; so the pass is a function of
\* the state: what it appends and which cursor it advances are those of that
\* row.
C22_SelectsFirstMinimum ==
  [][Pass =>
       \E k \in 1..Len(gaiasqls) :
         /\ FirstMinimum(k)
         /\ scans' = [scans EXCEPT ![HeadRow(k).idoffset] = 1]
         /\ rtn_stars' = IF HeadRow(k).in_fov THEN Append(rtn_stars, HeadRow(k))
                         ELSE rtn_stars
         /\ \A j \in 1..Len(gaiasqls) : j # k => gaiasqls'[j] = gaiasqls[j]]_vars
\* C22 witness: two heads of one magnitude, and the row of the first box was
\* examined while that of the second box waits
C22_Witness ==
  /\ pc = "loop"
  /\ Len(gaiasqls) = 2
  /\ streams[1] # <<>> /\ streams[2] # <<>>
  /\ streams[1][1].mean_mag = streams[2][1].mean_mag
  /\ scans[<<1, 1>>] = 1
  /\ scans[<<2, 1>>] = 0
  /\ gaiasqls[2].count = 1

\* C23: a pass advances the selected cursor, and no other, by one row,
\* whether the row was accepted or not: its count grows by one and the next
\* row is its head, or the stream has ended and it is closed; every other
\* cursor keeps its row, its count and its done flag.
C23_OnlySelectedAdvances ==
  [][(Pass /\ pc' = "loop") =>
       \E k \in 1..Len(gaiasqls) :
         /\ FirstMinimum(k)
         /\ \A j \in 1..Len(gaiasqls) : j # k => gaiasqls'[j] = gaiasqls[j]
         /\ IF gaiasqls[k].count < Len(streams[k])
            THEN /\ gaiasqls'[k].count = gaiasqls[k].count + 1
                 /\ gaiasqls'[k].row = << streams[k][gaiasqls[k].count + 1] >>
                 /\ ~gaiasqls'[k].done
            ELSE /\ gaiasqls'[k].count = gaiasqls[k].count
                 /\ gaiasqls'[k].row = None
                 /\ gaiasqls'[k].done]_vars
\* C23 witness: the first row of box 1 was rejected and its cursor moved to
\* the second row, while the cursor of box 2 still holds its first row
C23_Witness ==
  /\ pc = "loop"
  /\ Len(gaiasqls) = 2
  /\ Len(streams[1]) = 2 /\ Len(streams[2]) >= 1
  /\ ~streams[1][1].in_fov
  /\ scans[<<1, 1>>] = 1 /\ scans[<<1, 2>>] = 0 /\ scans[<<2, 1>>] = 0
  /\ gaiasqls[1].count = 2 /\ gaiasqls[1].row = << streams[1][2] >>
  /\ gaiasqls[2].count = 1 /\ gaiasqls[2].row = << streams[2][1] >>
  /\ rtn_stars = <<>>

\* The dot products of the claim: every directed side against every vertex
\* that is not one of its two ends
SideDots(uv) ==
  LET n == Len(uv)
      pairs == { p \in (1..n) \X (1..n) : p[2] # p[1] /\ p[2] # (p[1] % n) + 1 }
  IN { vdot(ucrss(uv[p[1]], uv[(p[1] % n) + 1]), uv[p[2]]) : p \in pairs }
OneSign(uv) ==
  (\A d \in SideDots(uv) : d > 0) \/ (\A d \in SideDots(uv) : d < 0)
ConvexKnown == Built /\ fov.fovtype = POLYGONTYPE /\ fov.has_convex

InwardNormals(uv) ==
  LET n == Len(uv)
      N(i) == ucrss(uv[i], uv[(i % n) + 1])
      k(i) == (((i % n) + 1) % n) + 1
  IN { IF vdot(N(i), uv[k(i)]) > 0 THEN N(i) ELSE vminus(N(i)) : i \in 1..n }

PairsOf(f) ==
  OffPM([i \in 1..f.L |-> Pair(f.radecdegs[i][1], SinDeg(f.radecdegs[i][2]),
                                f.uvfovxyzs[i])], 0)
Crossings(f) == CountCrossings(PairsOf(f), 1, PairsOf(f)[f.L].ra)[1]
BuiltPolygon == Built /\ fov.fovtype = POLYGONTYPE

\* C26: a polygon whose vertex longitudes cross the seam an odd number of
\* times has one box; its RA range is [0,360], its Dec range reaches +90
\* when the mean direction has a positive Z and -90 otherwise, and it holds
\* the Dec of every vertex
C26_OddCrossingPoleBox ==
  (BuiltPolygon /\ Crossings(fov) % 2 = 1) =>
    /\ Len(fov.radec_boxes) = 1
    /\ fov.radec_boxes[1][1] = 0
    /\ fov.radec_boxes[1][2] = 360
    /\ IF fovsum(fov.uvfovxyzs)[3] > 0
       THEN fov.radec_boxes[1][4] = SinDeg(90)
       ELSE fov.radec_boxes[1][3] = SinDeg(-90)
    /\ \A i \in 1..fov.L :
         /\ RootLE(fov.radec_boxes[1][3], SinDeg(fov.radecdegs[i][2]))
         /\ RootLE(SinDeg(fov.radecdegs[i][2]), fov.radec_boxes[1][4])
\* C26 witness: a polygon around the south pole with one crossing, whose box
\* runs from -90 to the Dec of its vertices or above
C26_Witness ==
  /\ BuiltPolygon
  /\ Crossings(fov) = 1
  /\ fovsum(fov.uvfovxyzs)[3] < 0
  /\ fov.radec_boxes[1][3] = SinDeg(-90)
  /\ RootLT(SinDeg(-90), fov.radec_boxes[1][4])

\* The ends of side i: the vertex before vertex i, and vertex i
SideFrom(i) == localxyzs[IF i = 1 THEN Len(localxyzs) ELSE i - 1]
SideTo(i) == localxyzs[i]
SideYlo(i) == Min2(SideFrom(i)[2], SideTo(i)[2])
SideYhi(i) == Max2(SideFrom(i)[2], SideTo(i)[2])
\* The point <<x, y>> is on the line through the ends of side i or on the
\* side of smaller x: (x - x0)(y1 - y0) <= (y - y0)(x1 - x0) for y1 > y0
LeftOrOn(i, v) ==
  LET lo == IF SideFrom(i)[2] < SideTo(i)[2] THEN SideFrom(i) ELSE SideTo(i)
      hi == IF SideFrom(i)[2] < SideTo(i)[2] THEN SideTo(i) ELSE SideFrom(i)
  IN (v[1] - lo[1]) * (hi[2] - lo[2]) <= (v[2] - lo[2]) * (hi[1] - lo[1])
Tested == fovsides # <<>> /\ z1star # <<>>

\* C27: right_of is True exactly for ylo <= y < yhi and x at or below the
\* x of the side at that y; so at the y of a vertex the side that has it as
\* its maximum y is not counted, and the side that has it as its minimum y
\* is counted when the point is at or to the left of the vertex
C27_RightOfHalfOpen ==
  Tested =>
    \A i \in 1..Len(fovsides) :
      /\ hits[i] <=> /\ SideYlo(i) <= z1star[2]
                     /\ z1star[2] < SideYhi(i)
                     /\ LeftOrOn(i, z1star)
      /\ z1star[2] = SideYhi(i) => ~hits[i]
      /\ \A e \in {SideFrom(i), SideTo(i)} :
           (e[2] = SideYlo(i) /\ SideYlo(i) < SideYhi(i)
              /\ z1star[2] = e[2] /\ z1star[1] <= e[1]) => hits[i]
\* C27 witness: the point is level with a vertex and left of it; of the two
\* sides that meet there the one below is not counted and the one above is
C27_Witness ==
  /\ Tested
  /\ \E i, j \in 1..Len(fovsides) :
       /\ SideTo(i) = SideFrom(j)
       /\ z1star[2] = SideTo(i)[2]
       /\ z1star[1] < SideTo(i)[1]
       /\ SideYhi(i) = z1star[2] /\ SideYlo(i) < z1star[2]
       /\ SideYlo(j) = z1star[2] /\ SideYhi(j) > z1star[2]
       /\ ~hits[i]
       /\ hits[j]

\* The vertex longitudes of the polygon
VertexRAs(f) == { f.radecdegs[i][1] : i \in 1..f.L }

\* C28: a polygon with no crossing of the seam has one box, whose ralo is
\* the least and whose rahi is the greatest of the vertex longitudes, in
\* whatever order the vertices are listed, so that the RA and Dec of every
\* vertex are in the box
C28_ZeroCrossingRaRange ==
  (BuiltPolygon /\ Crossings(fov) = 0) =>
    /\ Len(fov.radec_boxes) = 1
    /\ \A ra \in VertexRAs(fov) : fov.radec_boxes[1][1] <= ra
    /\ \A ra \in VertexRAs(fov) : ra <= fov.radec_boxes[1][2]
    /\ fov.radec_boxes[1][1] \in VertexRAs(fov)
    /\ fov.radec_boxes[1][2] \in VertexRAs(fov)
    /\ \A i \in 1..fov.L :
         /\ RootLE(fov.radec_boxes[1][3], SinDeg(fov.radecdegs[i][2]))
         /\ RootLE(SinDeg(fov.radecdegs[i][2]), fov.radec_boxes[1][4])

\* C29: the end of a stream is final.  A cursor that is done has no row and
\* was closed once, one that is not done was never closed; a done cursor is
\* never changed again; and no pass of the loop selects a done cursor, so
\* that the assertion of cursor_next never fails.  This holds also for a
\* stream that is empty when its GAIASQL is made.
C29_ExhaustionAbsorbing ==
  /\ [](\A i \in 1..Len(gaiasqls) :
          /\ gaiasqls[i].done => (gaiasqls[i].row = None /\ gaiasqls[i].closes = 1)
          /\ ~gaiasqls[i].done => gaiasqls[i].closes = 0
          /\ gaiasqls[i].count <= Len(streams[i]))
  /\ []((pc = "loop" /\ minmag_gsql # 0) => ~gaiasqls[minmag_gsql].done)
  /\ [][\A i \in 1..Len(gaiasqls) :
          gaiasqls[i].done => gaiasqls'[i] = gaiasqls[i]]_vars
\* C29 witness: the stream of box 1 was empty from the start, its cursor was
\* closed by GAIASQL.__init__, and the loop went on through the two rows of
\* box 2
C29_Witness ==
  /\ Returned
  /\ Len(gaiasqls) = 2
  /\ streams[1] = <<>>
  /\ gaiasqls[1].done /\ gaiasqls[1].count = 0 /\ gaiasqls[1].closes = 1
  /\ gaiasqls[2].done /\ gaiasqls[2].count = 2 /\ gaiasqls[2].closes = 1
  /\ scans[<<2, 1>>] = 1 /\ scans[<<2, 2>>] = 1

\* C30: a record in the result list is not changed by a later pass: every
\* pass makes a new record, so the list only grows at its end, its elements
\* keep their contents, and no two of them are one object.
C30_ResultsNotModified ==
  /\ [](/\ Len(rtn_ids) = Len(rtn_stars)
        /\ \A j, k \in 1..Len(rtn_ids) : j # k => rtn_ids[j] # rtn_ids[k]
        /\ \A j \in 1..Len(rtn_ids) : rtn_stars[j] = objs[rtn_ids[j]])
  /\ [][/\ Len(rtn_stars') >= Len(rtn_stars)
        /\ \A j \in 1..Len(rtn_stars) : rtn_stars'[j] = rtn_stars[j]
        /\ \A id \in 1..Len(objs) : objs'[id] = objs[id]]_vars
\* C30 witness: two results, and between them a pass that rejected a row
C30_Witness ==
  /\ Len(rtn_stars) = 2
  /\ rtn_ids = <<1, 3>>
  /\ Len(objs) = 3
  /\ ~objs[2].in_fov
  /\ rtn_stars[1] = objs[1] /\ rtn_stars[2] = objs[3]
  /\ rtn_stars[1] # rtn_stars[2]

====
